---- MODULE Spec2Model ----
(***************************************************************************)
(* Model of cl/search/api_views.py: the search endpoint                    *)
(* (SearchViewSet.list), the court endpoint (CourtViewSet) and the         *)
(* declarative wiring of the model viewsets.                               *)
(***************************************************************************)
EXTENDS Integers, Sequences, FiniteSets, TLC

(* ---------------- bounds ---------------- *)

\* number of search requests that may be in flight at once
NumRequests == 2

Requests == 1..NumRequests

\* request.GET of a search request: q, type and the page query parameter
QValues == {"", "foo"}
TypeValues == {"o", "bad"}
PageValues == {1, 2}
GETValues == [q : QValues, type : TypeValues, page : PageValues]

(* ---------------- program constants ---------------- *)

\* status.HTTP_400_BAD_REQUEST
HTTP_400_BAD_REQUEST == 400

(* ---------------- collaborators of SearchViewSet.list ---------------- *)

\* SearchForm(request.GET): a form bound to the query parameters
SearchForm(data) == [data |-> data]

\* search_form.is_valid(): the type field is a choice field
is_valid(form) == form.data.type = "o"

\* search_form.cleaned_data of a valid form
cleaned_data(form) ==
    [q |-> form.data.q, type |-> form.data.type, order_by |-> "score desc"]

\* search_form.errors: field-level validation errors
errors(form) ==
    IF is_valid(form) THEN [type |-> <<>>]
    ELSE [type |-> <<"invalid_choice">>]

\* pagination.PageNumberPagination(): a fresh paginator has no page yet
NoPage == [number |-> 0, count |-> 0, query |-> "", has_next |-> FALSE]
NewPaginatorState == [page |-> NoPage]

\* number of hits the search engine holds for a query
Hits(q) == IF q = "*" THEN 4 ELSE 3

\* api_utils.get_object_list(request, cd=cd, paginator=paginator)
get_object_list(request, cd_, paginator_) ==
    [main_query |-> cd_,
     offset |-> request.page - 1,
     conn |-> [schema |-> <<"schema", cd_.type>>]]

\* paginator.paginate_queryset(sl, request): the page object the paginator keeps
Page(sl_, request) ==
    [number |-> request.page,
     count |-> Hits(sl_.main_query.q),
     query |-> sl_.main_query.q,
     has_next |-> request.page < 2]

\* paginator.paginate_queryset(sl, request): the list of results it returns
paginate_queryset(sl_, request) ==
    <<[q |-> sl_.main_query.q, type |-> sl_.main_query.type,
       rank |-> sl_.offset + 1]>>

\* SearchResultSerializer(result_page, many=True, context={'schema': ...}).data
SearchResultSerializer(result_page_, context) ==
    [i \in 1..Len(result_page_) |->
        [result |-> result_page_[i], schema |-> context.schema]]

\* paginator.get_paginated_response(data): built from the paginator's own page
get_paginated_response(pstate, data) ==
    [status |-> 200,
     data |-> [count |-> pstate.page.count,
               next |-> IF pstate.page.has_next THEN pstate.page.number + 1 ELSE 0,
               previous |-> pstate.page.number - 1,
               query |-> pstate.page.query,
               results |-> data]]

(* ---------------- SearchViewSet.list ---------------- *)

\* faulty variant: validity test inverted
ListBranchInverted(form) == IF is_valid(form) THEN "invalid" ELSE "valid"

\* `if search_form.is_valid():` picks the branch of list
ListBranch(form) == IF is_valid(form) THEN "valid" ELSE "invalid"

\* faulty variant: q is passed on as cleaned
DefaultQKeep(cd_) == cd_

\* `if cd['q'] == '': cd['q'] = '*'`
DefaultQ(cd_) == IF cd_.q = "" THEN [cd_ EXCEPT !.q = "*"] ELSE cd_

\* faulty variant: the invalid branch answers 200
InvalidResponseOk(form) == [status |-> 200, data |-> errors(form)]

\* `return response.Response(search_form.errors, status=HTTP_400_BAD_REQUEST)`
InvalidResponse(form) == [status |-> HTTP_400_BAD_REQUEST, data |-> errors(form)]

\* faulty variant: one paginator object shared by all requests
PaginatorShared(r) == 1

\* `paginator = pagination.PageNumberPagination()`: a new object per call of list
PaginatorOf(r) == r

\* faulty variant: the branch ignored, an invalid form runs the valid path too
ListFlowWrong(at, branch) ==
    CASE at = "start" -> "valid"
      [] at = "valid" -> "have_paginator"
      [] at = "have_paginator" -> "have_sl"
      [] at = "have_sl" -> "have_page"
      [] at = "have_page" -> "have_serializer"
      [] OTHER -> "done"

\* the statement order of list: the position that follows position at
ListFlow(at, branch) ==
    CASE at = "start" -> branch
      [] at = "valid" -> "have_paginator"
      [] at = "have_paginator" -> "have_sl"
      [] at = "have_sl" -> "have_page"
      [] at = "have_page" -> "have_serializer"
      [] OTHER -> "done"

NoCd == [q |-> "", type |-> "", order_by |-> ""]
NoSl == [main_query |-> NoCd, offset |-> 0, conn |-> [schema |-> <<>>]]
NoResponse == [status |-> 0, data |-> <<>>]
NoGET == [q |-> "", type |-> "", page |-> 0]

VARIABLES
    pc,           \* position of each request inside list
    GET,          \* request.GET
    search_form,  \* local search_form
    cd,           \* local cd
    paginator,    \* local paginator: the identity of the paginator object
    paginators,   \* state of the paginator objects
    sl,           \* local sl
    result_page,  \* local result_page
    serializer,   \* local serializer (its data)
    response,     \* the response list returned
    calls         \* collaborators invoked by each request, in order

searchVars == <<pc, GET, search_form, cd, paginator, paginators, sl,
                result_page, serializer, response, calls>>

VARIABLES
    wpc,    \* how far the framework has taken the request
    wreq,   \* the request: viewset, operation, requester, query parameters
    wres    \* what the viewset selected for it, and the response status

wiringVars == <<wpc, wreq, wres>>

VARIABLES
    courts, \* the Court table: the jurisdiction stored under each primary key
    cres    \* the response to the latest request on the court endpoint

courtVars == <<courts, cres>>

vars == <<searchVars, wiringVars, courtVars>>

SearchInit ==
    /\ pc = [r \in Requests |-> "idle"]
    /\ GET = [r \in Requests |-> NoGET]
    /\ search_form = [r \in Requests |-> SearchForm(NoGET)]
    /\ cd = [r \in Requests |-> NoCd]
    /\ paginator = [r \in Requests |-> 0]
    /\ paginators = [p \in Requests |-> NewPaginatorState]
    /\ sl = [r \in Requests |-> NoSl]
    /\ result_page = [r \in Requests |-> <<>>]
    /\ serializer = [r \in Requests |-> <<>>]
    /\ response = [r \in Requests |-> NoResponse]
    /\ calls = [r \in Requests |-> <<>>]

Call(fn, args) == [fn |-> fn, args |-> args]

\* a GET arrives at the search endpoint
Arrive(r) ==
    /\ UNCHANGED <<wiringVars, courtVars>>
    /\ pc[r] = "idle"
    /\ \E g \in GETValues : GET' = [GET EXCEPT ![r] = g]
    /\ pc' = [pc EXCEPT ![r] = "start"]
    /\ UNCHANGED <<search_form, cd, paginator, paginators, sl, result_page,
                   serializer, response, calls>>

\* search_form = SearchForm(request.GET); if search_form.is_valid(): cd = ...
ListValidate(r) ==
    /\ UNCHANGED <<wiringVars, courtVars>>
    /\ pc[r] = "start"
    /\ LET form == SearchForm(GET[r])
           to == ListFlow("start", ListBranch(form))
       IN /\ search_form' = [search_form EXCEPT ![r] = form]
          /\ calls' = [calls EXCEPT ![r] = Append(@, Call("is_valid", [data |-> GET[r]]))]
          /\ cd' = [cd EXCEPT ![r] = IF to = "invalid" THEN @ ELSE cleaned_data(form)]
          /\ pc' = [pc EXCEPT ![r] = to]
    /\ UNCHANGED <<GET, paginator, paginators, sl, result_page, serializer, response>>

\* if cd['q'] == '': cd['q'] = '*'; paginator = pagination.PageNumberPagination()
ListNewPaginator(r) ==
    /\ UNCHANGED <<wiringVars, courtVars>>
    /\ pc[r] = "valid"
    /\ cd' = [cd EXCEPT ![r] = DefaultQ(@)]
    /\ paginator' = [paginator EXCEPT ![r] = PaginatorOf(r)]
    /\ paginators' = [paginators EXCEPT ![PaginatorOf(r)] = NewPaginatorState]
    /\ pc' = [pc EXCEPT ![r] = ListFlow("valid", "valid")]
    /\ UNCHANGED <<GET, search_form, sl, result_page, serializer, response, calls>>

\* sl = api_utils.get_object_list(request, cd=cd, paginator=paginator)
ListGetObjectList(r) ==
    /\ UNCHANGED <<wiringVars, courtVars>>
    /\ pc[r] = "have_paginator"
    /\ sl' = [sl EXCEPT ![r] = get_object_list(GET[r], cd[r], paginators[paginator[r]])]
    /\ calls' = [calls EXCEPT ![r] = Append(@,
           Call("get_object_list", [cd |-> cd[r], paginator |-> paginator[r]]))]
    /\ pc' = [pc EXCEPT ![r] = ListFlow("have_paginator", "valid")]
    /\ UNCHANGED <<GET, search_form, cd, paginator, paginators, result_page,
                   serializer, response>>

\* result_page = paginator.paginate_queryset(sl, request)
ListPaginate(r) ==
    /\ UNCHANGED <<wiringVars, courtVars>>
    /\ pc[r] = "have_sl"
    /\ result_page' = [result_page EXCEPT ![r] = paginate_queryset(sl[r], GET[r])]
    /\ paginators' = [paginators EXCEPT ![paginator[r]] = [page |-> Page(sl[r], GET[r])]]
    /\ calls' = [calls EXCEPT ![r] = Append(@,
           Call("paginate_queryset", [sl |-> sl[r], paginator |-> paginator[r]]))]
    /\ pc' = [pc EXCEPT ![r] = ListFlow("have_sl", "valid")]
    /\ UNCHANGED <<GET, search_form, cd, paginator, sl, serializer, response>>

\* serializer = SearchResultSerializer(result_page, many=True,
\*                                     context={'schema': sl.conn.schema})
ListSerialize(r) ==
    /\ UNCHANGED <<wiringVars, courtVars>>
    /\ pc[r] = "have_page"
    /\ serializer' = [serializer EXCEPT ![r] =
           SearchResultSerializer(result_page[r], [schema |-> sl[r].conn.schema])]
    /\ calls' = [calls EXCEPT ![r] = Append(@,
           Call("SearchResultSerializer",
                [page |-> result_page[r], schema |-> sl[r].conn.schema]))]
    /\ pc' = [pc EXCEPT ![r] = ListFlow("have_page", "valid")]
    /\ UNCHANGED <<GET, search_form, cd, paginator, paginators, sl, result_page,
                   response>>

\* return paginator.get_paginated_response(serializer.data)
ListRespond(r) ==
    /\ UNCHANGED <<wiringVars, courtVars>>
    /\ pc[r] = "have_serializer"
    /\ response' = [response EXCEPT ![r] =
           get_paginated_response(paginators[paginator[r]], serializer[r])]
    /\ calls' = [calls EXCEPT ![r] = Append(@,
           Call("get_paginated_response",
                [data |-> serializer[r], paginator |-> paginator[r]]))]
    /\ pc' = [pc EXCEPT ![r] = ListFlow("have_serializer", "valid")]
    /\ UNCHANGED <<GET, search_form, cd, paginator, paginators, sl, result_page,
                   serializer>>

\* Invalid search: the 400 response
ListInvalid(r) ==
    /\ UNCHANGED <<wiringVars, courtVars>>
    /\ pc[r] = "invalid"
    /\ response' = [response EXCEPT ![r] = InvalidResponse(search_form[r])]
    /\ pc' = [pc EXCEPT ![r] = ListFlow("invalid", "invalid")]
    /\ UNCHANGED <<GET, search_form, cd, paginator, paginators, sl, result_page,
                   serializer, calls>>

SearchNext ==
    \E r \in Requests :
        \/ Arrive(r)
        \/ ListValidate(r)
        \/ ListNewPaginator(r)
        \/ ListGetObjectList(r)
        \/ ListPaginate(r)
        \/ ListSerialize(r)
        \/ ListRespond(r)
        \/ ListInvalid(r)

(* ---------------- claims about SearchViewSet.list ---------------- *)

FormOf(r) == SearchForm(GET[r])
Finished(r) == pc[r] = "done"
InFlight(r) == pc[r] \notin {"idle", "done"}
FnNames(r) == [i \in DOMAIN calls[r] |-> calls[r][i].fn]
IsPrefix(s, t) == Len(s) <= Len(t) /\ \A i \in 1..Len(s) : s[i] = t[i]

\* the response a request gets when it runs list alone, start to end
RunAlone(g) ==
    LET form == SearchForm(g) IN
    IF is_valid(form)
    THEN LET c == IF cleaned_data(form).q = ""
                  THEN [cleaned_data(form) EXCEPT !.q = "*"]
                  ELSE cleaned_data(form)
             s == get_object_list(g, c, NewPaginatorState)
             data == SearchResultSerializer(paginate_queryset(s, g),
                                            [schema |-> s.conn.schema])
         IN get_paginated_response([page |-> Page(s, g)], data)
    ELSE [status |-> HTTP_400_BAD_REQUEST, data |-> errors(form)]

\* C1: a search GET whose form is invalid is answered with status 400 and a
\* body that is exactly search_form.errors; before that answer the invalid
\* path produces no response at all.
C1_InvalidSearchIs400 ==
    \A r \in Requests :
        (pc[r] # "idle" /\ ~is_valid(FormOf(r))) =>
            IF Finished(r)
            THEN /\ response[r].status = HTTP_400_BAD_REQUEST
                 /\ response[r].data = errors(FormOf(r))
            ELSE response[r] = NoResponse

C1_Witness ==
    \E r \in Requests :
        /\ Finished(r)
        /\ ~is_valid(FormOf(r))
        /\ response[r].status = HTTP_400_BAD_REQUEST

Paginated(r) ==
    /\ paginator[r] # 0
    /\ response[r] = get_paginated_response(paginators[paginator[r]], serializer[r])
    /\ serializer[r] = SearchResultSerializer(result_page[r],
                                              [schema |-> sl[r].conn.schema])
Rejected(r) ==
    /\ response[r].status = HTTP_400_BAD_REQUEST
    /\ response[r].data = errors(FormOf(r))

\* C2: every search GET ends in exactly one of two outcomes, decided by the
\* validity of the form alone: the paginated response over the serialized
\* result page when valid, the 400 with the validation errors when invalid;
\* a request under way has no response yet and always has a next step.
C2_ExactlyOneOutcome ==
    \A r \in Requests :
        /\ Finished(r) =>
              \/ is_valid(FormOf(r)) /\ Paginated(r) /\ ~Rejected(r)
              \/ ~is_valid(FormOf(r)) /\ Rejected(r) /\ ~Paginated(r)
        /\ InFlight(r) =>
              /\ response[r] = NoResponse
              /\ ENABLED (\/ ListValidate(r) \/ ListNewPaginator(r)
                          \/ ListGetObjectList(r) \/ ListPaginate(r)
                          \/ ListSerialize(r) \/ ListRespond(r) \/ ListInvalid(r))

C2_Witness ==
    \E r, s \in Requests :
        /\ Finished(r) /\ is_valid(FormOf(r)) /\ Paginated(r)
        /\ Finished(s) /\ ~is_valid(FormOf(s)) /\ Rejected(s)

\* C5: requests share no state: no two requests hold the same paginator
\* object, and whatever the interleaving, a finished request has the
\* response it would get running alone on the same query parameters.
C5_RequestsIsolated ==
    /\ \A r, s \in Requests :
          (r # s /\ paginator[r] # 0) => paginator[r] # paginator[s]
    /\ \A r \in Requests : Finished(r) => response[r] = RunAlone(GET[r])

C5_Witness ==
    \E r, s \in Requests :
        /\ r # s
        /\ GET[r] # GET[s]
        /\ is_valid(FormOf(r)) /\ is_valid(FormOf(s))
        /\ pc[s] = "have_serializer"
        /\ Finished(r)
        /\ response[r] # RunAlone(GET[s])

ListOrder ==
    <<"is_valid", "get_object_list", "paginate_queryset",
      "SearchResultSerializer", "get_paginated_response">>

\* C6: list invokes its collaborators in the order validation,
\* get_object_list, paginate_queryset, serializer, get_paginated_response,
\* each at most once; paginate_queryset gets the list get_object_list
\* returned, the serializer gets that page and the schema of that list's
\* connection, one paginator object serves all three paginator uses; an
\* invalid form invokes nothing after validation.
C6_StepOrder ==
    \A r \in Requests :
        LET c == calls[r] IN
        /\ IsPrefix(FnNames(r), ListOrder)
        /\ Finished(r) /\ is_valid(FormOf(r)) => Len(c) = Len(ListOrder)
        /\ (pc[r] # "idle" /\ ~is_valid(FormOf(r))) =>
              /\ IsPrefix(FnNames(r), <<"is_valid">>)
              /\ paginator[r] = 0
        /\ Len(c) >= 2 => c[2].args.paginator # 0
        /\ Len(c) >= 3 =>
              /\ c[3].args.sl = get_object_list(GET[r], c[2].args.cd,
                                                NewPaginatorState)
              /\ c[3].args.paginator = c[2].args.paginator
        /\ Len(c) >= 4 =>
              /\ c[4].args.page = paginate_queryset(c[3].args.sl, GET[r])
              /\ c[4].args.schema = c[3].args.sl.conn.schema
        /\ Len(c) >= 5 =>
              /\ c[5].args.paginator = c[2].args.paginator
              /\ c[5].args.data = SearchResultSerializer(c[4].args.page,
                                      [schema |-> c[4].args.schema])

C6_Witness ==
    \E r, s \in Requests :
        /\ Finished(r) /\ FnNames(r) = ListOrder
        /\ Finished(s) /\ FnNames(s) = <<"is_valid">>

\* C8: the cleaned data handed to get_object_list has q = '*' when the
\* cleaned q is empty and the cleaned q otherwise, every other cleaned field
\* as cleaned; so get_object_list never sees an empty q.
C8_DefaultQuery ==
    \A r \in Requests : \A i \in DOMAIN calls[r] :
        calls[r][i].fn = "get_object_list" =>
            LET passed == calls[r][i].args.cd
                cleaned == cleaned_data(FormOf(r))
            IN /\ passed.q = (IF cleaned.q = "" THEN "*" ELSE cleaned.q)
               /\ passed.q # ""
               /\ passed.type = cleaned.type
               /\ passed.order_by = cleaned.order_by

C8_Witness ==
    \E r, s \in Requests :
        /\ GET[r].q = "" /\ Len(calls[r]) >= 2 /\ calls[r][2].args.cd.q = "*"
        /\ GET[s].q = "foo" /\ Len(calls[s]) >= 2 /\ calls[s][2].args.cd.q = "foo"


(* ---------------- the viewsets: declarative wiring ---------------- *)

ModelViewSets ==
    {"OriginatingCourtInformationViewSet", "DocketViewSet", "DocketEntryViewSet",
     "RECAPDocumentViewSet", "CourtViewSet", "OpinionClusterViewSet",
     "OpinionViewSet", "OpinionsCitedViewSet", "TagViewSet"}
ViewSets == ModelViewSets \cup {"SearchViewSet"}

\* the five operations of a collection endpoint
Operations == {"list", "retrieve", "create", "update", "destroy"}

\* the framework class each viewset derives from
BaseViewSet(v) == IF v = "SearchViewSet" THEN "ViewSet" ELSE "ModelViewSet"

\* the handlers a viewset offers: all of ModelViewSet's, or the methods it defines
Handlers(v) == IF BaseViewSet(v) = "ModelViewSet" THEN Operations ELSE {"list"}

\* serializer_class
serializer_class(v) ==
    CASE v = "OriginatingCourtInformationViewSet" -> "OriginalCourtInformationSerializer"
      [] v = "DocketViewSet" -> "DocketSerializer"
      [] v = "DocketEntryViewSet" -> "DocketEntrySerializer"
      [] v = "RECAPDocumentViewSet" -> "RECAPDocumentSerializer"
      [] v = "CourtViewSet" -> "CourtSerializer"
      [] v = "OpinionClusterViewSet" -> "OpinionClusterSerializer"
      [] v = "OpinionViewSet" -> "OpinionSerializer"
      [] v = "OpinionsCitedViewSet" -> "OpinionsCitedSerializer"
      [] v = "TagViewSet" -> "TagSerializer"
      [] OTHER -> "None"

\* faulty variant: TagViewSet given a filter class
filter_class_all(v) ==
    CASE v = "DocketViewSet" -> "DocketFilter"
      [] v = "DocketEntryViewSet" -> "DocketEntryFilter"
      [] v = "RECAPDocumentViewSet" -> "RECAPDocumentFilter"
      [] v = "CourtViewSet" -> "CourtFilter"
      [] v = "OpinionClusterViewSet" -> "OpinionClusterFilter"
      [] v = "OpinionViewSet" -> "OpinionFilter"
      [] v = "OpinionsCitedViewSet" -> "OpinionsCitedFilter"
      [] v = "TagViewSet" -> "TagFilter"
      [] OTHER -> "None"

\* filter_class
filter_class(v) ==
    CASE v = "DocketViewSet" -> "DocketFilter"
      [] v = "DocketEntryViewSet" -> "DocketEntryFilter"
      [] v = "RECAPDocumentViewSet" -> "RECAPDocumentFilter"
      [] v = "CourtViewSet" -> "CourtFilter"
      [] v = "OpinionClusterViewSet" -> "OpinionClusterFilter"
      [] v = "OpinionViewSet" -> "OpinionFilter"
      [] v = "OpinionsCitedViewSet" -> "OpinionsCitedFilter"
      [] OTHER -> "None"

\* ordering_fields; the empty set where the viewset declares none
ordering_fields(v) ==
    CASE v = "DocketViewSet" ->
            {"date_created", "date_modified", "date_argued", "date_reargued",
             "date_reargument_denied", "date_blocked", "date_cert_granted",
             "date_cert_denied", "date_filed", "date_terminated",
             "date_last_filing"}
      [] v = "DocketEntryViewSet" -> {"date_created", "date_modified", "date_filed"}
      [] v = "RECAPDocumentViewSet" -> {"date_created", "date_modified", "date_upload"}
      [] v = "CourtViewSet" -> {"date_modified", "position", "start_date", "end_date"}
      [] v = "OpinionClusterViewSet" ->
            {"date_created", "date_modified", "date_filed", "citation_count",
             "date_blocked"}
      [] v = "OpinionViewSet" -> {"id", "date_created", "date_modified"}
      [] OTHER -> {}

\* faulty variant: the search endpoint gated like the RECAP endpoints
permission_classes_gated(v) ==
    IF v \in {"DocketEntryViewSet", "RECAPDocumentViewSet", "TagViewSet",
              "SearchViewSet"}
    THEN <<"RECAPUsersReadOnly">>
    ELSE <<>>

\* permission_classes; the empty tuple where the viewset declares none
permission_classes(v) ==
    CASE v \in {"DocketEntryViewSet", "RECAPDocumentViewSet", "TagViewSet"} ->
            <<"RECAPUsersReadOnly">>
      [] v = "SearchViewSet" -> <<"AllowAny">>
      [] OTHER -> <<>>

Queryset(model, select, prefetch, exclude, ordering) ==
    [model |-> model, using |-> "get_api_read_db", select_related |-> select,
     prefetch_related |-> prefetch, exclude |-> exclude, order_by |-> ordering]

NoQueryset ==
    [model |-> "None", using |-> "None", select_related |-> {},
     prefetch_related |-> {}, exclude |-> {}, order_by |-> "None"]

\* faulty variant: the eager-loading hints of OpinionViewSet dropped
get_queryset_plain(v) ==
    CASE v = "OriginatingCourtInformationViewSet" ->
            Queryset("OriginatingCourtInformation", {}, {}, {}, "model")
      [] v = "DocketViewSet" ->
            Queryset("Docket",
                     {"court", "assigned_to", "referred_to",
                      "originating_court_information", "idb_data"},
                     {"panel", "clusters", "audio_files", "tags"}, {}, "model")
      [] v = "DocketEntryViewSet" ->
            Queryset("DocketEntry", {"docket"},
                     {"recap_documents", "recap_documents__tags", "tags"}, {},
                     "cleared")
      [] v = "RECAPDocumentViewSet" ->
            Queryset("RECAPDocument", {"docket_entry", "docket_entry__docket"},
                     {"tags"}, {}, "cleared")
      [] v = "CourtViewSet" ->
            Queryset("Court", {}, {}, {<<"jurisdiction", "TESTING_COURT">>}, "model")
      [] v = "OpinionClusterViewSet" ->
            Queryset("OpinionCluster", {},
                     {"sub_opinions", "panel", "non_participating_judges",
                      "citations"}, {}, "model")
      [] v = "OpinionViewSet" -> Queryset("Opinion", {}, {}, {}, "model")
      [] v = "OpinionsCitedViewSet" -> Queryset("OpinionsCited", {}, {}, {}, "model")
      [] v = "TagViewSet" -> Queryset("Tag", {}, {}, {}, "model")
      [] OTHER -> NoQueryset

\* get_queryset
get_queryset(v) ==
    CASE v = "OriginatingCourtInformationViewSet" ->
            Queryset("OriginatingCourtInformation", {}, {}, {}, "model")
      [] v = "DocketViewSet" ->
            Queryset("Docket",
                     {"court", "assigned_to", "referred_to",
                      "originating_court_information", "idb_data"},
                     {"panel", "clusters", "audio_files", "tags"}, {}, "model")
      [] v = "DocketEntryViewSet" ->
            Queryset("DocketEntry", {"docket"},
                     {"recap_documents", "recap_documents__tags", "tags"}, {},
                     "cleared")
      [] v = "RECAPDocumentViewSet" ->
            Queryset("RECAPDocument", {"docket_entry", "docket_entry__docket"},
                     {"tags"}, {}, "cleared")
      [] v = "CourtViewSet" ->
            Queryset("Court", {}, {}, {<<"jurisdiction", "TESTING_COURT">>}, "model")
      [] v = "OpinionClusterViewSet" ->
            Queryset("OpinionCluster", {},
                     {"sub_opinions", "panel", "non_participating_judges",
                      "citations"}, {}, "model")
      [] v = "OpinionViewSet" ->
            Queryset("Opinion", {"cluster", "author"},
                     {"opinions_cited", "joined_by"}, {}, "model")
      [] v = "OpinionsCitedViewSet" -> Queryset("OpinionsCited", {}, {}, {}, "model")
      [] v = "TagViewSet" -> Queryset("Tag", {}, {}, {}, "model")
      [] OTHER -> NoQueryset

\* permissions.AllowAny lets every request through; what the other permission
\* classes decide is not fixed by this file
PermissionOutcomes(class) == IF class = "AllowAny" THEN {TRUE} ELSE {TRUE, FALSE}

\* whether an ordering parameter naming field takes effect: it must be one
\* of the declared ordering_fields; where none are declared the framework's
\* default decides (dflt), which this file does not fix
OrderingTakesEffect(v, field, dflt) ==
    IF ordering_fields(v) # {} THEN field \in ordering_fields(v)
    ELSE field # "" /\ dflt

OrderingValues == {"", "date_modified", "id"}

WRequests ==
    [view : ViewSets, operation : Operations, authenticated : BOOLEAN,
     filter : BOOLEAN, ordering : OrderingValues]

NoWRequest ==
    [view |-> "None", operation |-> "None", authenticated |-> FALSE,
     filter |-> FALSE, ordering |-> ""]

NoWResult ==
    [status |-> 0, permissions |-> <<>>, declared |-> FALSE,
     queryset |-> NoQueryset, filter_class |-> "None", filtered |-> FALSE,
     ordered |-> FALSE, paginated |-> FALSE, serializer |-> "None"]

WiringInit ==
    /\ wpc = "idle"
    /\ wreq = NoWRequest
    /\ wres = NoWResult

\* a request for one operation of one endpoint arrives
WArrive ==
    /\ UNCHANGED <<searchVars, courtVars>>
    /\ wpc = "idle"
    /\ \E q \in WRequests : wreq' = q
    /\ wres' = NoWResult
    /\ wpc' = "arrived"

\* initial(): the permission classes the viewset declares, else the
\* framework's default ones; a refusal ends the request with 403
WCheckPermissions ==
    /\ UNCHANGED <<searchVars, courtVars>>
    /\ wpc = "arrived"
    /\ LET classes == IF permission_classes(wreq.view) = <<>>
                      THEN <<"DEFAULT_PERMISSION_CLASSES">>
                      ELSE permission_classes(wreq.view)
       IN \E granted \in [DOMAIN classes -> BOOLEAN] :
            /\ \A i \in DOMAIN classes : granted[i] \in PermissionOutcomes(classes[i])
            /\ wres' = [wres EXCEPT
                   !.permissions = classes,
                   !.declared = permission_classes(wreq.view) # <<>>,
                   !.status = IF \A i \in DOMAIN classes : granted[i] THEN 0 ELSE 403]
            /\ wpc' = IF \A i \in DOMAIN classes : granted[i] THEN "permitted" ELSE "done"
    /\ UNCHANGED wreq

\* the operation goes to the viewset's handler, if it has one, else 405
WDispatch ==
    /\ UNCHANGED <<searchVars, courtVars>>
    /\ wpc = "permitted"
    /\ IF wreq.operation \in Handlers(wreq.view)
       THEN wpc' = "routed" /\ wres' = wres
       ELSE wpc' = "done" /\ wres' = [wres EXCEPT !.status = 405]
    /\ UNCHANGED wreq

\* the handler of a model viewset builds its queryset (create has none to build)
WGetQueryset ==
    /\ UNCHANGED <<searchVars, courtVars>>
    /\ wpc = "routed"
    /\ BaseViewSet(wreq.view) = "ModelViewSet"
    /\ wres' = [wres EXCEPT !.queryset =
                   IF wreq.operation = "create" THEN NoQueryset
                   ELSE get_queryset(wreq.view)]
    /\ wpc' = "queried"
    /\ UNCHANGED wreq

\* filter_queryset and paginate_queryset on the queryset, then the serializer
WRespond ==
    /\ UNCHANGED <<searchVars, courtVars>>
    /\ wpc = "queried"
    /\ \E dflt \in BOOLEAN : wres' = [wres EXCEPT
           !.filter_class = filter_class(wreq.view),
           !.filtered = /\ wreq.operation # "create"
                        /\ wreq.filter
                        /\ filter_class(wreq.view) # "None",
           !.ordered = /\ wreq.operation = "list"
                       /\ OrderingTakesEffect(wreq.view, wreq.ordering, dflt),
           !.paginated = wreq.operation = "list",
           !.serializer = serializer_class(wreq.view),
           !.status = CASE wreq.operation = "create" -> 201
                        [] wreq.operation = "destroy" -> 204
                        [] OTHER -> 200]
    /\ wpc' = "done"
    /\ UNCHANGED wreq

\* SearchViewSet.list: no queryset, no filter class; SearchResultSerializer or 400
WSearchList ==
    /\ UNCHANGED <<searchVars, courtVars>>
    /\ wpc = "routed"
    /\ BaseViewSet(wreq.view) = "ViewSet"
    /\ \E g \in GETValues :
         wres' = [wres EXCEPT
             !.serializer = IF is_valid(SearchForm(g))
                            THEN "SearchResultSerializer" ELSE "None",
             !.paginated = is_valid(SearchForm(g)),
             !.status = RunAlone(g).status]
    /\ wpc' = "done"
    /\ UNCHANGED wreq

(* ---------------- CourtViewSet ---------------- *)

\* CourtViewSet defines get_queryset only; its handlers are the ones it
\* inherits from viewsets.ModelViewSet: list and get_object (behind retrieve,
\* update and destroy) read get_queryset(), create saves without reading it,
\* and create and update answer with the row they saved.  Each request is
\* taken as one step.

\* number of primary keys the Court table may hold
MaxCourts == 2

CourtKeys == 1..MaxCourts

\* Court.TESTING_COURT
TESTING_COURT == "T"

\* jurisdictions a court row may carry; "absent": no row under that key
Jurisdictions == {"F", "S", TESTING_COURT}

CourtRow(db, pk) == [pk |-> pk, jurisdiction |-> db[pk]]

\* faulty variant: the exclude() forgotten
CourtQuerysetAll(db) == {pk \in CourtKeys : db[pk] # "absent"}

\* Court.objects.using(...).exclude(jurisdiction=Court.TESTING_COURT): the keys
\* of the rows the queryset holds
CourtQueryset(db) ==
    {pk \in CourtKeys : db[pk] # "absent" /\ db[pk] # TESTING_COURT}

NoCourtResponse == [operation |-> "None", pk |-> 0, status |-> 0, body |-> {}]

CourtResponse(op, pk, status, body) ==
    [operation |-> op, pk |-> pk, status |-> status, body |-> body]

CourtInit ==
    /\ courts \in [CourtKeys -> Jurisdictions \cup {"absent"}]
    /\ cres = NoCourtResponse

\* list: the rows of the queryset
CourtList ==
    /\ UNCHANGED <<searchVars, wiringVars>>
    /\ cres' = CourtResponse("list", 0, 200,
                   {CourtRow(courts, pk) : pk \in CourtQueryset(courts)})
    /\ UNCHANGED courts

\* retrieve: get_object looks the key up in the queryset, 404 when not there
CourtRetrieve(pk) ==
    /\ UNCHANGED <<searchVars, wiringVars>>
    /\ cres' = IF pk \in CourtQueryset(courts)
               THEN CourtResponse("retrieve", pk, 200, {CourtRow(courts, pk)})
               ELSE CourtResponse("retrieve", pk, 404, {})
    /\ UNCHANGED courts

\* create: saves the row and answers 201 with the saved row; the queryset is
\* not consulted; a key already taken fails validation
CourtCreate(pk, j) ==
    /\ UNCHANGED <<searchVars, wiringVars>>
    /\ IF courts[pk] = "absent"
       THEN /\ courts' = [courts EXCEPT ![pk] = j]
            /\ cres' = CourtResponse("create", pk, 201, {CourtRow(courts', pk)})
       ELSE /\ courts' = courts
            /\ cres' = CourtResponse("create", pk, 400, {})

\* update: get_object in the queryset, then save and answer with the saved row
CourtUpdate(pk, j) ==
    /\ UNCHANGED <<searchVars, wiringVars>>
    /\ IF pk \in CourtQueryset(courts)
       THEN /\ courts' = [courts EXCEPT ![pk] = j]
            /\ cres' = CourtResponse("update", pk, 200, {CourtRow(courts', pk)})
       ELSE /\ courts' = courts
            /\ cres' = CourtResponse("update", pk, 404, {})

\* destroy: get_object in the queryset, then delete the row
CourtDestroy(pk) ==
    /\ UNCHANGED <<searchVars, wiringVars>>
    /\ IF pk \in CourtQueryset(courts)
       THEN /\ courts' = [courts EXCEPT ![pk] = "absent"]
            /\ cres' = CourtResponse("destroy", pk, 204, {})
       ELSE /\ courts' = courts
            /\ cres' = CourtResponse("destroy", pk, 404, {})

(* ---------------- claims about the wiring ---------------- *)

Served == wpc = "done" /\ wres.status \in {200, 201, 204}
ServedList == Served /\ wreq.operation = "list"
Hints(qs) == qs.select_related \cup qs.prefetch_related

\* the viewsets that declare ordering_fields
DeclareOrdering ==
    {"DocketViewSet", "DocketEntryViewSet", "RECAPDocumentViewSet",
     "CourtViewSet", "OpinionClusterViewSet", "OpinionViewSet"}

C4_AsStated ==
    ServedList =>
        /\ wres.serializer # "None"
        /\ wres.filter_class # "None"
        /\ wres.declared
        /\ Hints(wres.queryset) # {}

\* C4 (amended): every viewset uses a serializer and every model viewset a
\* queryset; a filter class is selected by all but the
\* OriginatingCourtInformation, Tag and Search viewsets; permission classes
\* by the DocketEntry, RECAPDocument, Tag and Search viewsets only;
\* eager-loading hints are in the querysets of the Docket, DocketEntry,
\* RECAPDocument, OpinionCluster and Opinion viewsets only.
C4_WhatEachSelects ==
    ServedList =>
        /\ wres.serializer # "None"
        /\ wres.queryset # NoQueryset <=> wreq.view # "SearchViewSet"
        /\ wres.filter_class # "None" <=>
              wreq.view \notin {"OriginatingCourtInformationViewSet", "TagViewSet",
                                "SearchViewSet"}
        /\ wres.declared <=>
              wreq.view \in {"DocketEntryViewSet", "RECAPDocumentViewSet",
                             "TagViewSet", "SearchViewSet"}
        /\ Hints(wres.queryset) # {} <=>
              wreq.view \in {"DocketViewSet", "DocketEntryViewSet",
                             "RECAPDocumentViewSet", "OpinionClusterViewSet",
                             "OpinionViewSet"}

C4_Witness ==
    /\ ServedList
    /\ wreq.view = "OriginatingCourtInformationViewSet"
    /\ wres.serializer = "OriginalCourtInformationSerializer"
    /\ wres.filter_class = "None"
    /\ ~wres.declared
    /\ Hints(wres.queryset) = {}

\* C7: a search request is checked against AllowAny alone and is never
\* refused by the permission check, authenticated or not; the DocketEntry,
\* RECAPDocument and Tag endpoints are checked against RECAPUsersReadOnly;
\* every other endpoint against the framework's default permission classes.
C7_SearchIsOpen ==
    /\ wreq.view = "SearchViewSet" => wres.status # 403
    /\ wpc \notin {"idle", "arrived"} =>
          CASE wreq.view = "SearchViewSet" ->
                  wres.permissions = <<"AllowAny">>
            [] wreq.view \in {"DocketEntryViewSet", "RECAPDocumentViewSet",
                              "TagViewSet"} ->
                  wres.permissions = <<"RECAPUsersReadOnly">>
            [] OTHER ->
                  /\ wres.permissions = <<"DEFAULT_PERMISSION_CLASSES">>
                  /\ ~wres.declared

C7_Witness ==
    /\ wreq.view = "SearchViewSet"
    /\ ~wreq.authenticated
    /\ wreq.operation = "list"
    /\ wpc = "done"
    /\ wres.status = 200
    /\ wres.permissions = <<"AllowAny">>

(* ---------------- claims about CourtViewSet ---------------- *)

Testing(rows) == {c \in rows : c.jurisdiction = TESTING_COURT}

\* C9 as stated: no response of the court endpoint ever carries a court
\* whose jurisdiction is TESTING_COURT.
C9_AsStated == Testing(cres.body) = {}

\* C9 (amended): a list never contains a court whose jurisdiction is
\* TESTING_COURT, and a retrieve, update or delete addressed to a court
\* stored with that jurisdiction finds no object (404) and changes nothing,
\* also when the court was just created through the endpoint; only the
\* response to the create or update that writes the testing jurisdiction
\* itself carries such a court.
C9_TestingCourtsHidden ==
    [][/\ cres'.operation = "list" => Testing(cres'.body) = {}
       /\ (/\ cres'.operation \in {"retrieve", "update", "destroy"}
           /\ courts[cres'.pk] = TESTING_COURT) =>
              /\ cres'.status = 404
              /\ cres'.body = {}
              /\ courts' = courts
       /\ Testing(cres'.body) # {} =>
              /\ cres'.operation \in {"create", "update"}
              /\ courts[cres'.pk] # TESTING_COURT
              /\ courts'[cres'.pk] = TESTING_COURT]_vars

C9_Witness ==
    /\ cres.operation = "retrieve"
    /\ cres.status = 404
    /\ courts[cres.pk] = TESTING_COURT

(* ---------------- specifications ---------------- *)

WiringNext ==
    \/ WArrive
    \/ WCheckPermissions
    \/ WDispatch
    \/ WGetQueryset
    \/ WRespond
    \/ WSearchList

CourtNext ==
    \/ CourtList
    \/ \E pk \in CourtKeys : CourtRetrieve(pk)
    \/ \E pk \in CourtKeys, j \in Jurisdictions : CourtCreate(pk, j)
    \/ \E pk \in CourtKeys, j \in Jurisdictions : CourtUpdate(pk, j)
    \/ \E pk \in CourtKeys : CourtDestroy(pk)

Init == SearchInit /\ WiringInit /\ CourtInit
Next == SearchNext \/ WiringNext \/ CourtNext

\* the search endpoint under concurrent requests
InitSearch == SearchInit /\ WiringInit /\ cres = NoCourtResponse
                /\ courts = [pk \in CourtKeys |-> "absent"]
Spec == InitSearch /\ [][SearchNext]_vars

\* one request at a time through the router, for every endpoint
InitWiring == InitSearch
WiringSpec == InitWiring /\ [][WiringNext]_vars

\* the court endpoint over every content of the Court table
CourtSpec == Init /\ [][CourtNext]_vars
====
